---- MODULE Spec2Model ----
(***************************************************************************)
(* Model of experiment/tools/deap/profile.py: the size- and depth-         *)
(* constrained random program builder (generate_program_ with the          *)
(* terminal_condition of generate_grow), the arithmetic it relies on       *)
(* (get_max_size) and the size-bin sampler that calls it.                  *)
(*                                                                         *)
(* The random module is the only source of nondeterminism: every           *)
(* random.randint / random.choice / random.random call is an existential   *)
(* choice over the values the call can return, and the variable `draws`    *)
(* counts the values taken from the stream by the current invocation.      *)
(***************************************************************************)
EXTENDS Integers, Sequences, FiniteSets, TLC

\* Bounds of the model.
MaxDepth == 2
MaxSize == 5
MaxArity == 3

VARIABLES
  primitive_set,  \* [primitives, terminals, num_constants]
  min_depth, max_depth, min_size, max_size,
  desired_trait,  \* "depth" or "size"
  desired_value,  \* drawn at entry
  program,        \* the node list, in visitation order
  stack,          \* the obligations, top of the stack last: [depth, size]
  pc,             \* "entry", "loop", "done"
  result,         \* "pending", "program", "None", "ValueError"
  draws,          \* values taken from the random stream by this invocation
  popped,         \* `depth, size` of line 90: the obligation last popped
  call,           \* a call of get_max_size on its own: [m, d, ret]
  function_sets,  \* the configurations: <<[function_set, max_depth, bin_size]>>
  num_programs_per_size_bin,
  name,           \* the function set at hand (an index of function_sets)
  max_arity,      \* the module-level max_arity, set by the generation loop
  i, j,           \* the size bin and the attempt within it
  spc,            \* where the module-level script is
  program_dict,   \* [name][i]: the record of size bin i
  primitive_trees,\* [name][i]: the trees kept for the profiling
  files           \* the names whose programs_deap.txt was written

\* The arguments of generate_program_.
arguments == <<primitive_set, min_depth, max_depth, min_size, max_size,
               desired_trait>>

\* The state of the module-level script.
script == <<function_sets, num_programs_per_size_bin, name, max_arity, i, j,
            spc, program_dict, primitive_trees, files>>

vars == <<arguments, desired_value, program, stack, pc, result, draws,
          popped, call, script>>

------------------------------------------------------------------------------
\* Helpers over sequences and integers.

RECURSIVE Pow(_, _)
Pow(m, e) == IF e = 0 THEN 1 ELSE m * Pow(m, e - 1)

Abs(x) == IF x < 0 THEN -x ELSE x

\* int(a / b) of Python: the quotient truncated toward zero.
TruncDiv(a, b) ==
  LET q == Abs(a) \div Abs(b)
  IN  IF (a < 0) = (b < 0) THEN q ELSE -q

RECURSIVE SumSeq(_)
SumSeq(s) == IF s = <<>> THEN 0 ELSE Head(s) + SumSeq(Tail(s))

RECURSIVE MaxSeq(_)
MaxSeq(s) ==
  IF Len(s) = 1 THEN s[1]
  ELSE LET m == MaxSeq(Tail(s)) IN IF s[1] >= m THEN s[1] ELSE m

Front(s) == SubSeq(s, 1, Len(s) - 1)
Last(s) == s[Len(s)]

CopiesButOne(n, x) == [k \in 1..(n - 1) |-> x]

Copies(n, x) == [k \in 1..n |-> x]

------------------------------------------------------------------------------
\* get_max_size(m, d): the maximum size of an m-ary program of depth d.
\* For d + 1 < 0 the power is a fraction below 1 and int() truncates the
\* quotient, which lies in (-1, 0], to 0.
get_max_size_short(m, d) ==
  IF m = 1 THEN d + 1
  ELSE IF d + 1 < 0 THEN 0
  ELSE TruncDiv(1 - Pow(m, d), 1 - m)

get_max_size(m, d) ==
  IF m = 1 THEN d + 1
  ELSE IF d + 1 < 0 THEN 0
  ELSE TruncDiv(1 - Pow(m, d + 1), 1 - m)

NoCall == [m |-> 0, d |-> 0, ret |-> 0]

------------------------------------------------------------------------------
\* The primitive sets the builder is run on.

\* Nodes: a function of the function set, a variable v<i> of the primitive
\* set, or an instance of the ephemeral constant class holding the i-th
\* entry of the fixed list of constants (named c<i> here).
Primitive(op, arity) == [kind |-> "function", name |-> op, arity |-> arity]
Variable(n) ==
  [kind |-> "variable",
   name |-> <<"v0", "v1", "v2", "v3", "v4", "v5">>[n + 1], arity |-> 0]
Constant(n) ==
  [kind |-> "constant", name |-> <<"c0", "c1", "c2", "c3">>[n + 1], arity |-> 0]
\* The ephemeral constant class itself: instantiated when chosen.
Erc == [kind |-> "erc", name |-> "erc", arity |-> 0]

IsSorted(s) == \A k \in 1..(Len(s) - 1) : s[k].arity < s[k + 1].arity

\* One function per arity of a set of arities, in ascending order.
PrimitiveLists ==
  { s \in UNION { [1..n -> { Primitive(<<"f1", "f2", "f3", "f4">>[a], a)
                               : a \in 1..MaxArity }]
                  : n \in 0..MaxArity } : IsSorted(s) }

TerminalLists == { <<>>, <<Variable(0)>>, <<Erc>> }

\* The most constants in the fixed list of constants of a primitive set.
MaxConstants == 1

PrimitiveSets ==
  { [primitives |-> p, terminals |-> t, num_constants |-> MaxConstants]
      : p \in PrimitiveLists, t \in TerminalLists }

ValidBounds ==
  /\ 1 <= min_size /\ min_size <= max_size
  /\ 0 <= min_depth /\ min_depth <= max_depth

HasTerminal == primitive_set.terminals # <<>>

------------------------------------------------------------------------------
\* generate_grow.terminal_condition and the function filter of
\* generate_program_.  `stack` is the stack after the pop of line 90.

Arities(functions) == [k \in 1..Len(functions) |-> functions[k].arity]

\* The functions whose arity keeps the program within max_size.
valid_functions_any(size) ==
  LET Fits(f) == size < max_size
  IN  SelectSeq(primitive_set.primitives, Fits)

valid_functions(size) ==
  LET Fits(f) == size + f.arity <= max_size
  IN  SelectSeq(primitive_set.primitives, Fits)

\* Sum over the outstanding obligations of the size of a full max_arity-ary
\* subtree reaching max_depth, the obligation itself excluded.
remaining_budget(stk, max_arity_) ==
  SumSeq([k \in 1..Len(stk) |->
            get_max_size(max_arity_, max_depth - stk[k].depth) - 1])

\* The disjuncts of lines 218-224: a terminal is forced.
forced_terminal_no_depth(depth, size) ==
  \/ valid_functions(size) = <<>>
  \/ size = max_size
  \/ (desired_trait = "depth" /\ depth = desired_value)
  \/ (desired_trait = "size" /\ size >= desired_value)

forced_terminal_no_size(depth, size) ==
  \/ valid_functions(size) = <<>>
  \/ depth = max_depth
  \/ size = max_size
  \/ (desired_trait = "depth" /\ depth = desired_value)

forced_terminal(depth, size) ==
  \/ valid_functions(size) = <<>>
  \/ depth = max_depth
  \/ size = max_size
  \/ (desired_trait = "depth" /\ depth = desired_value)
  \/ (desired_trait = "size" /\ size >= desired_value)

\* The conjuncts of lines 225-229: a terminal is allowed, subject to the
\* random draw of line 230.
optional_terminal_unchecked(stk, depth, size) ==
  /\ depth >= min_depth
  /\ size >= min_size

optional_terminal(stk, depth, size) ==
  LET functions == valid_functions(size)
      max_arity_ == IF functions = <<>> THEN 1 ELSE MaxSeq(Arities(functions))
      max_possible_size ==
        IF stk = <<>> THEN size ELSE size + remaining_budget(stk, max_arity_)
  IN  /\ depth >= min_depth
      /\ size >= min_size
      /\ \/ desired_trait = "depth"
         \/ (desired_trait = "size" /\ max_possible_size >= desired_value)

\* random.random() is called only when the `and`/`or` chain reaches it.
coin_drawn(stk, depth, size) ==
  /\ primitive_set.terminals # <<>>
  /\ ~forced_terminal(depth, size)
  /\ optional_terminal(stk, depth, size)

\* `coin` is the outcome of random.random() < primitive_set.terminalRatio.
terminal_condition_unguarded(stk, depth, size, coin) ==
  \/ forced_terminal(depth, size)
  \/ (optional_terminal(stk, depth, size) /\ coin)

terminal_condition(stk, depth, size, coin) ==
  /\ primitive_set.terminals # <<>>
  /\ \/ forced_terminal(depth, size)
     \/ (optional_terminal(stk, depth, size) /\ coin)

\* Lines 124-163: the functions that may be chosen for the current node.
feasible_functions_unfiltered(stk, depth, size) == valid_functions(size)

feasible_functions(stk, depth, size) ==
  LET functions == valid_functions(size)
  IN  IF functions # <<>> /\ desired_trait = "size"
      THEN LET max_arity_ == MaxSeq(Arities(functions))
               max_possible_size(f) ==
                 IF stk = <<>>
                 THEN size + f.arity *
                        get_max_size(max_arity_, max_depth - (depth + 1))
                 ELSE size + f.arity *
                        get_max_size(max_arity_, max_depth - (depth + 1))
                      + remaining_budget(stk, max_arity_)
               Reaches(f) == max_possible_size(f) >= desired_value
           IN  SelectSeq(functions, Reaches)
      ELSE functions

\* Lines 113-115: the next obligation takes the size just resolved.
carry_forward_none(stk, size) == stk

carry_forward(stk, size) ==
  IF stk # <<>>
  THEN Append(Front(stk), [depth |-> Last(stk).depth, size |-> size])
  ELSE stk

\* Lines 176-179: one obligation per argument of the chosen function.
push_arguments_same_size(stk, depth, size, function) ==
  stk \o Copies(function.arity, [depth |-> depth + 1, size |-> size])

push_arguments_ahead(stk, depth, size, function) ==
  stk \o [k \in 1..function.arity |->
            [depth |-> depth + 1,
             size |-> size + function.arity + (function.arity - k)]]

push_arguments(stk, depth, size, function) ==
  stk \o Copies(function.arity,
                [depth |-> depth + 1, size |-> size + function.arity])

------------------------------------------------------------------------------
\* generate_program_, one action per loop iteration.

\* Lines 69-80: the draw of desired_value.  random.randint raises
\* ValueError on an empty range, before it takes a value from the stream.
Entry ==
  /\ pc = "entry"
  /\ LET lo == IF desired_trait = "depth" THEN min_depth ELSE min_size
         hi == IF desired_trait = "depth" THEN max_depth ELSE max_size
     IN  IF lo > hi
         THEN /\ pc' = "done"
              /\ result' = "ValueError"
              /\ UNCHANGED <<desired_value, stack, draws>>
         ELSE /\ \E v \in lo..hi : desired_value' = v
              /\ stack' = <<[depth |-> 0, size |-> 1]>>
              /\ draws' = draws + 1
              /\ pc' = "loop"
              /\ UNCHANGED result
  /\ program' = <<>>
  /\ UNCHANGED <<arguments, popped, call, script>>

\* The terminals random.choice and the instantiation of the ephemeral
\* constant class can yield, with the number of values drawn for each.
TerminalChoices ==
  { [node |-> t, drawn |-> 1] :
      t \in { primitive_set.terminals[k] :
                k \in { l \in 1..Len(primitive_set.terminals) :
                          primitive_set.terminals[l].kind # "erc" } } }
  \cup
  { [node |-> Constant(c), drawn |-> 2] :
      c \in { c \in 0..(primitive_set.num_constants - 1) :
                \E l \in 1..Len(primitive_set.terminals) :
                  primitive_set.terminals[l].kind = "erc" } }


\* Lines 90-115: the popped obligation becomes a terminal.
\* random.choice raises IndexError on an empty terminal list.
ResolveTerminal ==
  /\ pc = "loop" /\ stack # <<>>
  /\ LET top == Last(stack)
         stk == Front(stack)
     IN  \E coin \in BOOLEAN :
           /\ coin_drawn(stk, top.depth, top.size) \/ ~coin
           /\ terminal_condition(stk, top.depth, top.size, coin)
           /\ popped' = top
           /\ LET c == IF coin_drawn(stk, top.depth, top.size) THEN 1 ELSE 0
              IN  IF primitive_set.terminals = <<>>
                  THEN /\ pc' = "done"
                       /\ result' = "IndexError"
                       /\ draws' = draws + c
                       /\ UNCHANGED <<program, stack>>
                  ELSE \E t \in TerminalChoices :
                         /\ program' = Append(program, t.node)
                         /\ stack' = carry_forward(stk, top.size)
                         /\ draws' = draws + c + t.drawn
                         /\ UNCHANGED <<pc, result>>
  /\ UNCHANGED <<arguments, desired_value, call, script>>

\* Lines 90-94 and 117-179: the popped obligation becomes a function.
ResolveFunction ==
  /\ pc = "loop" /\ stack # <<>>
  /\ LET top == Last(stack)
         stk == Front(stack)
         functions == feasible_functions(stk, top.depth, top.size)
     IN  \E coin \in BOOLEAN :
           /\ coin_drawn(stk, top.depth, top.size) \/ ~coin
           /\ ~terminal_condition(stk, top.depth, top.size, coin)
           /\ functions # <<>>
           /\ popped' = top
           /\ \E k \in 1..Len(functions) :
                /\ program' = Append(program, functions[k])
                /\ stack' = push_arguments(stk, top.depth, top.size,
                                           functions[k])
           /\ draws' = draws + 1 +
                (IF coin_drawn(stk, top.depth, top.size) THEN 1 ELSE 0)
  /\ UNCHANGED <<arguments, desired_value, pc, result, call, script>>

\* Lines 166-172: no function can be chosen, the builder returns None.
ReturnNone ==
  /\ pc = "loop" /\ stack # <<>>
  /\ LET top == Last(stack)
         stk == Front(stack)
     IN  \E coin \in BOOLEAN :
           /\ coin_drawn(stk, top.depth, top.size) \/ ~coin
           /\ ~terminal_condition(stk, top.depth, top.size, coin)
           /\ feasible_functions(stk, top.depth, top.size) = <<>>
           /\ popped' = top
           /\ stack' = stk
           /\ draws' = draws +
                (IF coin_drawn(stk, top.depth, top.size) THEN 1 ELSE 0)
  /\ pc' = "done"
  /\ result' = "None"
  /\ UNCHANGED <<arguments, desired_value, program, call, script>>

\* Lines 82 and 181: the stack is empty, the node list is returned.
ReturnProgram ==
  /\ pc = "loop" /\ stack = <<>>
  /\ pc' = "done"
  /\ result' = "program"
  /\ UNCHANGED <<arguments, desired_value, program, stack, draws, popped,
                 call, script>>

------------------------------------------------------------------------------
\* The measurements the sampler takes of a returned node list.

\* PrimitiveTree.height (line 460): the depth of the deepest node, found by
\* walking the prefix list with a stack of depths.
RECURSIVE HeightFrom(_, _, _, _)
HeightFrom(prog, k, depths, best) ==
  IF k > Len(prog) \/ depths = <<>> THEN best
  ELSE LET d == Last(depths)
       IN  HeightFrom(prog, k + 1,
                      Front(depths) \o Copies(prog[k].arity, d + 1),
                      IF d > best THEN d ELSE best)

Height(prog) == HeightFrom(prog, 1, <<0>>, 0)

\* program_nodes[-1] + 1 (line 448): the number of nodes.
Size(prog) == Len(prog)

\* str(program) (line 457): the prefix list rendered as name(arg, arg),
\* here as the sequence of its tokens.
RECURSIVE Render(_, _), RenderArgs(_, _, _, _)
Render(prog, k) ==
  IF prog[k].arity = 0
  THEN [str |-> <<prog[k].name>>, next |-> k + 1]
  ELSE LET args == RenderArgs(prog, k + 1, prog[k].arity, <<>>)
       IN  [str |-> <<prog[k].name, "(">> \o args.str \o <<")">>,
            next |-> args.next]
RenderArgs(prog, k, n, acc) ==
  IF n = 0 THEN [str |-> acc, next |-> k]
  ELSE LET arg == Render(prog, k)
       IN  RenderArgs(prog, arg.next, n - 1,
                      IF acc = <<>> THEN arg.str ELSE acc \o <<", ">> \o arg.str)

Str(prog) == Render(prog, 1).str

------------------------------------------------------------------------------
\* The module-level script: generation of the programs of every size bin of
\* every function set (lines 325-525) and the report (lines 542-563).

opcode_width == 8

\* Bounds of the configurations.
MaxScriptDepth == 2
MaxBinSize == 3
MaxPrograms == 2
\* The most calls of the builder in one run of the script.
MaxAttempts == 3

\* The largest max_possible_size of a configuration.
MaxScriptSize == 5

FunctionSets ==
  { <<Primitive("sin", 1)>>,
    <<Primitive("add", 2)>>,
    <<Primitive("sin", 1), Primitive("add", 2)>>,
    <<Primitive("sin", 1), Primitive("if", 3)>> }

Configurations ==
  { c \in [function_set : FunctionSets, max_depth : 0..MaxScriptDepth,
           bin_size : 1..MaxBinSize] :
      get_max_size(MaxSeq([k \in 1..Len(c.function_set) |->
                             c.function_set[k].arity]), c.max_depth)
        <= MaxScriptSize }

\* math.ceil(a / b) for positive b.
Ceil(a, b) == (a + b - 1) \div b

\* Lines 335-342: the arities and the number of size bins over all sets.
max_arity_of(function_set) == MaxSeq(Arities(function_set))

num_size_bins_of(arity, configuration) ==
  Ceil(get_max_size(arity, configuration.max_depth), configuration.bin_size)

max_num_size_bins ==
  MaxSeq([n \in 1..Len(function_sets) |->
            num_size_bins_of(max_arity_of(function_sets[n].function_set),
                             function_sets[n])])

\* Lines 368-390, for the function set at hand.
function_set == function_sets[name].function_set
num_functions == Len(function_set)
function_names == [k \in 1..num_functions |-> function_set[k].name]
max_possible_size == get_max_size(max_arity, function_sets[name].max_depth)
num_size_bins == Ceil(max_possible_size, function_sets[name].bin_size)
num_variables == num_functions - 1
variable_names == [k \in 1..num_variables |-> Variable(k - 1).name]
\* Line 390, cut to the first MaxConstants constants: the model keeps no
\* more of the list of constants than random.randint may select.
num_constants ==
  LET n == Pow(2, opcode_width) - (num_functions + 1) - num_variables
  IN  IF n <= MaxConstants THEN n ELSE MaxConstants
constant_names == [k \in 1..num_constants |-> Constant(k - 1).name]

\* generate_primitive_set (lines 33-60): the functions, the variables
\* v0, v1, ... and the ephemeral constant class.
generate_primitive_set(functions, variables, constants) ==
  [primitives |-> functions,
   terminals |-> [k \in 1..variables |-> Variable(k - 1)] \o <<Erc>>,
   num_constants |-> constants]

\* Lines 429-430: the sizes of size bin i.
bin_min_size(bin) == bin * function_sets[name].bin_size + 1
bin_max_size_unclamped(bin) == (bin + 1) * function_sets[name].bin_size

bin_max_size(bin) ==
  IF bin = num_size_bins - 1 THEN max_possible_size
  ELSE (bin + 1) * function_sets[name].bin_size

EmptyBin ==
  [programs |-> <<>>, depths |-> <<>>, sizes |-> <<>>,
   function_counts |-> <<>>, variable_counts |-> <<>>,
   constant_counts |-> <<>>]

Count(list, x) == Cardinality({ k \in 1..Len(list) : list[k] = x })

Contains(list, x) == \E k \in 1..Len(list) : list[k] = x

\* Lines 487-503: the numbers of instances of each function, variable and
\* constant among the nodes.  A node is counted at the first index of its
\* label in `names` (list.index), unless an earlier branch of the if/elif
\* chain found the label in `others`.
Instances(prog, names, others) ==
  [k \in 1..Len(names) |->
     Cardinality({ n \in 1..Len(prog) :
                     /\ prog[n].name = names[k]
                     /\ \A l \in 1..(k - 1) : names[l] # prog[n].name
                     /\ ~Contains(others, prog[n].name) })]

function_count(prog) == Instances(prog, function_names, <<>>)
variable_count(prog) == Instances(prog, variable_names, function_names)
constant_count(prog) ==
  Instances(prog, constant_names, function_names \o variable_names)

\* Lines 512-522: the running sums.
ZipSum(a, b) ==
  [k \in 1..(IF Len(a) <= Len(b) THEN Len(a) ELSE Len(b)) |-> a[k] + b[k]]

running_sum_first(counts, count) == IF counts = <<>> THEN count ELSE counts

running_sum(counts, count) == IF counts = <<>> THEN count ELSE ZipSum(counts, count)

\* Lines 480-481: the program is written to the bin.
is_written_without_dedup(programs, program_str) ==
  Len(programs) < num_programs_per_size_bin

is_written_always(programs, program_str) == TRUE

is_written(programs, program_str) ==
  /\ Len(programs) < num_programs_per_size_bin
  /\ Count(programs, program_str) = 0

\* Lines 365-424: the set-up for the function set at hand.
SetUp ==
  /\ spc = "setup"
  /\ max_arity' = max_arity_of(function_set)
  /\ primitive_set' =
       generate_primitive_set(function_set, num_variables, num_constants)
  /\ min_depth' = 1
  /\ max_depth' = function_sets[name].max_depth
  /\ desired_trait' = "size"
  /\ i' = 0 /\ j' = 0
  /\ spc' = "attempt"
  /\ UNCHANGED <<min_size, max_size, desired_value, program, stack, pc,
                 result, draws, popped, call, function_sets,
                 num_programs_per_size_bin, name, program_dict,
                 primitive_trees, files>>

\* Lines 426-438: attempt j of size bin i calls the builder.
BeginAttempt ==
  /\ spc = "attempt"
  /\ min_size' = bin_min_size(i)
  /\ max_size' = bin_max_size(i)
  /\ pc' = "entry"
  /\ result' = "pending"
  /\ draws' = 0
  /\ spc' = "call"
  /\ UNCHANGED <<primitive_set, min_depth, max_depth, desired_trait,
                 desired_value, program, stack, popped, call, function_sets,
                 num_programs_per_size_bin, name, max_arity, i, j,
                 program_dict, primitive_trees, files>>

\* The loop variables after attempt j of size bin i.
Advance ==
  IF j + 1 < num_programs_per_size_bin
  THEN /\ j' = j + 1 /\ UNCHANGED <<i, name>> /\ spc' = "attempt"
  ELSE IF i + 1 < num_size_bins
  THEN /\ j' = 0 /\ i' = i + 1 /\ UNCHANGED name /\ spc' = "attempt"
  ELSE IF name < Len(function_sets)
  THEN /\ name' = name + 1 /\ spc' = "setup" /\ UNCHANGED <<i, j>>
  ELSE /\ name' = 1 /\ spc' = "report" /\ UNCHANGED <<i, j>>

\* Lines 440-525: what the script does with the builder's return value.
\* An exception raised by the builder ends the script.
EndAttempt ==
  /\ spc = "call" /\ pc = "done"
  /\ pc' = "idle"
  /\ IF result \notin {"None", "program"}
     THEN /\ spc' = "raised"
          /\ UNCHANGED <<name, i, j, program_dict, primitive_trees>>
     ELSE
       /\ Advance
       /\ IF result = "None"
          THEN UNCHANGED <<program_dict, primitive_trees>>
          ELSE
            LET size == Size(program)
                program_str == Str(program)
                depth == Height(program)
                bin == program_dict[name][i]
            IN
              /\ primitive_trees' =
                   [primitive_trees EXCEPT ![name][i] = Append(@, program)]
              /\ IF depth > max_depth \/ size > max_size
                 THEN UNCHANGED program_dict
                 ELSE IF is_written(bin.programs, program_str)
                 THEN program_dict' = [program_dict EXCEPT ![name][i] =
                        [programs |-> Append(bin.programs, program_str),
                         depths |-> Append(bin.depths, depth),
                         sizes |-> Append(bin.sizes, size),
                         function_counts |->
                           running_sum(bin.function_counts,
                                       function_count(program)),
                         variable_counts |->
                           running_sum(bin.variable_counts,
                                       variable_count(program)),
                         constant_counts |->
                           running_sum(bin.constant_counts,
                                       constant_count(program))]]
                 ELSE UNCHANGED program_dict
  /\ UNCHANGED <<arguments, desired_value, program, stack, result, draws,
                 popped, call, function_sets, num_programs_per_size_bin,
                 max_arity, files>>

\* Lines 542-563: the report for one function set, with the module-level
\* max_arity as the generation loop left it.
all_bins_are_filled ==
  LET max_size_ == get_max_size(max_arity, function_sets[name].max_depth)
      num_size_bins_ == Ceil(max_size_, function_sets[name].bin_size)
      num_programs ==
        [b \in 1..max_num_size_bins |->
           Len(program_dict[name][b - 1].programs)]
      counted == SubSeq(num_programs, 1,
                        IF num_size_bins_ <= max_num_size_bins
                        THEN num_size_bins_ ELSE max_num_size_bins)
  IN  -MaxSeq([k \in 1..Len(counted) |-> -counted[k]])
        = num_programs_per_size_bin

Report ==
  /\ spc = "report"
  /\ files' = IF all_bins_are_filled THEN files \cup {name} ELSE files
  /\ IF name < Len(function_sets)
     THEN name' = name + 1 /\ UNCHANGED spc
     ELSE UNCHANGED name /\ spc' = "finished"
  /\ UNCHANGED <<arguments, desired_value, program, stack, pc, result,
                 draws, popped, call, function_sets,
                 num_programs_per_size_bin, max_arity, i, j, program_dict,
                 primitive_trees>>

\* The script is not run.
ScriptIdle ==
  /\ function_sets = <<>>
  /\ num_programs_per_size_bin = 0
  /\ name = 0 /\ max_arity = 0 /\ i = 0 /\ j = 0
  /\ spc = "idle"
  /\ program_dict = <<>>
  /\ primitive_trees = <<>>
  /\ files = {}

------------------------------------------------------------------------------
\* The builder on its own: any primitive set, any bounds, either trait.

Init ==
  /\ primitive_set \in PrimitiveSets
  /\ min_depth \in 0..MaxDepth /\ max_depth \in 0..MaxDepth
  /\ min_size \in 1..MaxSize /\ max_size \in 1..MaxSize
  /\ desired_trait \in {"depth", "size"}
  /\ desired_value = 0
  /\ program = <<>>
  /\ stack = <<>>
  /\ pc = "entry"
  /\ result = "pending"
  /\ draws = 0
  /\ popped = [depth |-> 0, size |-> 0]
  /\ call = NoCall
  /\ ScriptIdle

Next ==
  \/ Entry
  \/ ResolveTerminal
  \/ ResolveFunction
  \/ ReturnNone
  \/ ReturnProgram

Spec == Init /\ [][Next]_vars

\* The builder runs to its return: generate_program_ is one synchronous
\* call, each of whose steps is taken once it can be.
FairSpec == Spec /\ WF_vars(Next)

------------------------------------------------------------------------------
\* The builder under the trait "size", for functions of one or two
\* arguments and larger trees.

MaxGrowDepth == 3
MaxGrowSize == 7

GrowInit ==
  /\ primitive_set \in
       { ps \in PrimitiveSets :
           \A k \in 1..Len(ps.primitives) : ps.primitives[k].arity <= 2 }
  /\ min_depth \in 0..MaxGrowDepth /\ max_depth \in 0..MaxGrowDepth
  /\ min_depth <= max_depth
  /\ min_size \in 1..MaxGrowSize /\ max_size \in 1..MaxGrowSize
  /\ min_size <= max_size
  /\ desired_trait = "size"
  /\ desired_value = 0
  /\ program = <<>>
  /\ stack = <<>>
  /\ pc = "entry"
  /\ result = "pending"
  /\ draws = 0
  /\ popped = [depth |-> 0, size |-> 0]
  /\ call = NoCall
  /\ ScriptIdle

GrowSpec == GrowInit /\ [][Next]_vars

------------------------------------------------------------------------------
\* The script: the size bins of the function sets are filled in turn.

ScriptInit ==
  /\ function_sets \in { <<c>> : c \in Configurations }
  /\ num_programs_per_size_bin \in 1..MaxPrograms
  /\ max_num_size_bins * num_programs_per_size_bin <= MaxAttempts
  /\ name = 1
  /\ max_arity = 0
  /\ i = 0 /\ j = 0
  /\ spc = "setup"
  /\ program_dict =
       [n \in 1..Len(function_sets) |->
          [b \in 0..(max_num_size_bins - 1) |-> EmptyBin]]
  /\ primitive_trees =
       [n \in 1..Len(function_sets) |->
          [b \in 0..(max_num_size_bins - 1) |-> <<>>]]
  /\ files = {}
  /\ primitive_set = [primitives |-> <<>>, terminals |-> <<>>,
                      num_constants |-> 0]
  /\ min_depth = 0 /\ max_depth = 0 /\ min_size = 0 /\ max_size = 0
  /\ desired_trait = "size"
  /\ desired_value = 0
  /\ program = <<>>
  /\ stack = <<>>
  /\ pc = "idle"
  /\ result = "pending"
  /\ draws = 0
  /\ popped = [depth |-> 0, size |-> 0]
  /\ call = NoCall

ScriptNext ==
  \/ SetUp
  \/ BeginAttempt
  \/ Entry
  \/ ResolveTerminal
  \/ ResolveFunction
  \/ ReturnNone
  \/ ReturnProgram
  \/ EndAttempt
  \/ Report

ScriptSpec == ScriptInit /\ [][ScriptNext]_vars

------------------------------------------------------------------------------
\* One attempt of the script for one size bin: the script from the call of
\* the builder for size bin i to the next attempt, or to the end of the
\* report after the last size bin.  The size bins before i hold a program
\* that the script can have stored in them.

nicolau_b ==
  << Primitive("sin", 1), Primitive("tanh", 1), Primitive("add", 2),
     Primitive("sub", 2), Primitive("mul", 2), Primitive("aq", 2) >>

\* The configuration of the end-to-end scenario, and a configuration in
\* which the builder has no program for some desired size.
Scenario == [function_set |-> nicolau_b, max_depth |-> 3, bin_size |-> 4]

Infeasible ==
  [function_set |-> <<Primitive("sin", 1), Primitive("if", 3)>>,
   max_depth |-> 1, bin_size |-> 3]

\* A program of size bins 0, 1 and 2 of the scenario.
Stored(bin) ==
  LET v == Variable(0)
      f == Primitive("add", 2)
  IN  IF bin = 0 THEN <<v>>
      ELSE IF bin = 1 THEN <<f, f, v, v, v>>
      ELSE <<f, f, f, v, v, f, v, v, v>>

\* Lines 487-525, for the first program of a size bin.
first_record(prog) ==
  [programs |-> <<Str(prog)>>,
   depths |-> <<Height(prog)>>,
   sizes |-> <<Size(prog)>>,
   function_counts |-> function_count(prog),
   variable_counts |-> variable_count(prog),
   constant_counts |-> constant_count(prog)]

AttemptInit ==
  /\ function_sets \in { <<Scenario>>, <<Infeasible>> }
  /\ num_programs_per_size_bin = 1
  /\ name = 1
  /\ max_arity = max_arity_of(function_set)
  /\ i \in 0..(num_size_bins - 1)
  /\ function_sets = <<Infeasible>> => i = 0
  /\ j = 0
  /\ spc = "call"
  /\ program_dict =
       <<[b \in 0..(max_num_size_bins - 1) |->
            IF b < i THEN first_record(Stored(b)) ELSE EmptyBin]>>
  /\ primitive_trees =
       <<[b \in 0..(max_num_size_bins - 1) |->
            IF b < i THEN <<Stored(b)>> ELSE <<>>]>>
  /\ files = {}
  /\ primitive_set = [primitives |-> function_set,
                      terminals |-> <<Variable(0)>>,
                      num_constants |-> MaxConstants]
  /\ min_depth = 1
  /\ max_depth = function_sets[name].max_depth
  /\ min_size = bin_min_size(i)
  /\ max_size = bin_max_size(i)
  /\ desired_trait = "size"
  /\ desired_value = 0
  /\ program = <<>>
  /\ stack = <<>>
  /\ pc = "entry"
  /\ result = "pending"
  /\ draws = 0
  /\ popped = [depth |-> 0, size |-> 0]
  /\ call = NoCall

AttemptNext ==
  \/ Entry
  \/ ResolveTerminal
  \/ ResolveFunction
  \/ ReturnNone
  \/ ReturnProgram
  \/ EndAttempt
  \/ Report

AttemptSpec == AttemptInit /\ [][AttemptNext]_vars

------------------------------------------------------------------------------
\* The sizes of the size bins on their own: the set-up of a function set
\* and the loop over its size bins, for a function set of one function.

MaxRangeArity == 3
MaxRangeDepth == 2
MaxRangeBinSize == 5

\* Lines 426-430: the sizes of size bin i.
BinBounds ==
  /\ spc = "attempt"
  /\ min_size' = bin_min_size(i)
  /\ max_size' = bin_max_size(i)
  /\ spc' = "bounds"
  /\ UNCHANGED <<primitive_set, min_depth, max_depth, desired_trait,
                 desired_value, program, stack, pc, result, draws, popped,
                 call, function_sets, num_programs_per_size_bin, name,
                 max_arity, i, j, program_dict, primitive_trees, files>>

\* Line 426: the next size bin.
NextBin ==
  /\ spc = "bounds"
  /\ IF i + 1 < num_size_bins
     THEN i' = i + 1 /\ spc' = "attempt"
     ELSE UNCHANGED i /\ spc' = "finished"
  /\ UNCHANGED <<arguments, desired_value, program, stack, pc, result,
                 draws, popped, call, function_sets,
                 num_programs_per_size_bin, name, max_arity, j,
                 program_dict, primitive_trees, files>>

RangesInit ==
  /\ function_sets \in
       { <<c>> : c \in [function_set :
                          { <<Primitive("f", a)>> : a \in 1..MaxRangeArity },
                        max_depth : 0..MaxRangeDepth,
                        bin_size : 1..MaxRangeBinSize] }
  /\ num_programs_per_size_bin = 1
  /\ name = 1
  /\ max_arity = 0
  /\ i = 0 /\ j = 0
  /\ spc = "setup"
  /\ program_dict = <<[b \in 0..(max_num_size_bins - 1) |-> EmptyBin]>>
  /\ primitive_trees = <<[b \in 0..(max_num_size_bins - 1) |-> <<>>]>>
  /\ files = {}
  /\ primitive_set = [primitives |-> <<>>, terminals |-> <<>>,
                      num_constants |-> 0]
  /\ min_depth = 0 /\ max_depth = 0 /\ min_size = 0 /\ max_size = 0
  /\ desired_trait = "size"
  /\ desired_value = 0
  /\ program = <<>>
  /\ stack = <<>>
  /\ pc = "idle"
  /\ result = "pending"
  /\ draws = 0
  /\ popped = [depth |-> 0, size |-> 0]
  /\ call = NoCall

RangesNext == SetUp \/ BinBounds \/ NextBin

RangesSpec == RangesInit /\ [][RangesNext]_vars

------------------------------------------------------------------------------
\* The script for two function sets.

PairConfigurations ==
  { [function_set |-> <<Primitive("sin", 1)>>, max_depth |-> 1,
     bin_size |-> 1],
    [function_set |-> <<Primitive("add", 2)>>, max_depth |-> 1,
     bin_size |-> 1],
    Infeasible }

PairInit ==
  /\ function_sets \in
       { pair \in PairConfigurations \X PairConfigurations :
           pair[1] # pair[2] }
  /\ num_programs_per_size_bin = 1
  /\ name = 1
  /\ max_arity = 0
  /\ i = 0 /\ j = 0
  /\ spc = "setup"
  /\ program_dict =
       [n \in 1..Len(function_sets) |->
          [b \in 0..(max_num_size_bins - 1) |-> EmptyBin]]
  /\ primitive_trees =
       [n \in 1..Len(function_sets) |->
          [b \in 0..(max_num_size_bins - 1) |-> <<>>]]
  /\ files = {}
  /\ primitive_set = [primitives |-> <<>>, terminals |-> <<>>,
                      num_constants |-> 0]
  /\ min_depth = 0 /\ max_depth = 0 /\ min_size = 0 /\ max_size = 0
  /\ desired_trait = "size"
  /\ desired_value = 0
  /\ program = <<>>
  /\ stack = <<>>
  /\ pc = "idle"
  /\ result = "pending"
  /\ draws = 0
  /\ popped = [depth |-> 0, size |-> 0]
  /\ call = NoCall

PairSpec == PairInit /\ [][ScriptNext]_vars

------------------------------------------------------------------------------
\* get_max_size on its own.

MaxM == 7
MaxD == 7

GetMaxSize ==
  /\ pc = "call" /\ call.ret = 0
  /\ call' = [call EXCEPT !.ret = get_max_size(call.m, call.d)]
  /\ UNCHANGED <<arguments, desired_value, program, stack, pc, result,
                 draws, popped, script>>

CallInit ==
  /\ call \in [m : 1..MaxM, d : 0..MaxD, ret : {0}]
  /\ pc = "call"
  /\ primitive_set = [primitives |-> <<>>, terminals |-> <<>>,
                      num_constants |-> 0]
  /\ min_depth = 0 /\ max_depth = 0 /\ min_size = 0 /\ max_size = 0
  /\ desired_trait = "size"
  /\ desired_value = 0
  /\ program = <<>>
  /\ stack = <<>>
  /\ result = "pending"
  /\ draws = 0
  /\ popped = [depth |-> 0, size |-> 0]
  /\ ScriptIdle

CallSpec == CallInit /\ [][GetMaxSize]_vars

------------------------------------------------------------------------------
\* Properties of the builder.

Returned == pc = "done" /\ result = "program"

\* C1: with valid bounds and at least one terminal, in either target mode,
\* every returned tree has at most max_size nodes.
ClaimC1 ==
  (ValidBounds /\ HasTerminal /\ Returned) => Size(program) <= max_size

\* A returned tree of more than one node that exhausts max_size.
WitnessC1 ==
  /\ ValidBounds /\ HasTerminal /\ Returned
  /\ Size(program) = max_size /\ Size(program) > 1

\* C2: with valid bounds and at least one terminal, no function node is
\* placed at depth max_depth, so every returned tree has depth <= max_depth.
ClaimC2 ==
  (ValidBounds /\ HasTerminal) =>
    /\ (pc = "loop" /\ program # <<>> /\ Last(program).kind = "function")
         => popped.depth < max_depth
    /\ Returned => Height(program) <= max_depth

\* A returned tree that reaches max_depth >= 1 with a function just above.
WitnessC2 ==
  /\ ValidBounds /\ HasTerminal /\ Returned
  /\ max_depth >= 1 /\ Height(program) = max_depth

HasFunction == primitive_set.primitives # <<>>

\* C3: with valid bounds and at least one terminal, every returned tree has
\* at least min_size nodes (stated for the primitive sets that have a
\* function, so that a larger tree than a single terminal exists).
ClaimC3 ==
  (ValidBounds /\ HasTerminal /\ HasFunction /\ Returned)
    => Size(program) >= min_size

\* C4: with valid bounds and at least one terminal, every returned tree has
\* depth at least min_depth (stated for the primitive sets that have a
\* function, so that a tree deeper than a single terminal exists).
ClaimC4 ==
  (ValidBounds /\ HasTerminal /\ HasFunction /\ Returned)
    => Height(program) >= min_depth

NoFit ==
  /\ ~HasTerminal
  /\ \A k \in 1..Len(primitive_set.primitives) :
       primitive_set.primitives[k].arity > max_size

NoTerminalNoFit == ValidBounds /\ NoFit

\* C5 as stated, for any bounds: with no terminal and every function of
\* arity > max_size, the builder returns None and never a node list.
ClaimC5AnyBounds ==
  NoFit =>
    /\ pc = "done" => result = "None"
    /\ program = <<>>

\* C5 for valid bounds (min_size <= max_size, min_depth <= max_depth): with
\* no terminal and every function of arity > max_size, the builder returns
\* None: it never returns a node list and never fails otherwise.
ClaimC5 ==
  NoTerminalNoFit =>
    /\ pc = "done" => result = "None"
    /\ program = <<>>

\* The builder has returned None although functions are available.
WitnessC5 ==
  /\ NoTerminalNoFit /\ primitive_set.primitives # <<>>
  /\ pc = "done" /\ result = "None"

\* C7: at every pop the size of the popped obligation is the number of nodes
\* appended so far plus the number of outstanding obligations, the popped one
\* included; at the return it is the number of nodes of the tree.
ClaimC7 ==
  /\ (pc = "loop" /\ stack # <<>>)
       => Last(stack).size = Len(program) + Len(stack)
  /\ Returned => popped.size = Len(program)

\* A returned tree whose root has a function as first argument and further
\* arguments after it: a sibling is resolved after a whole subtree.
WitnessC7 ==
  /\ Returned /\ Len(program) >= 4
  /\ program[1].arity >= 2 /\ program[2].kind = "function"

\* C8: get_max_size(m, d) is the number of nodes of the complete m-ary tree
\* of depth d: the root and, below it, m complete trees of depth d - 1.
RECURSIVE CompleteTreeSize(_, _)
CompleteTreeSize(m, d) ==
  IF d = 0 THEN 1 ELSE 1 + m * CompleteTreeSize(m, d - 1)

ClaimC8 ==
  (pc = "call" /\ call.ret # 0) =>
    /\ call.ret = CompleteTreeSize(call.m, call.d)
    /\ (call.m = 1 /\ call.d = 4) => call.ret = 5
    /\ (call.m = 2 /\ call.d = 3) => call.ret = 15
    /\ (call.m = 3 /\ call.d = 2) => call.ret = 13

\* get_max_size(2, 3) has returned 15.
WitnessC8 == pc = "call" /\ call = [m |-> 2, d |-> 3, ret |-> 15]

\* C10: a configuration error is rejected at entry, before a value is drawn,
\* with an outcome other than None.
ConfigurationError ==
  \/ ~HasTerminal
  \/ min_size > max_size
  \/ min_depth > max_depth

ClaimC10 ==
  (ConfigurationError /\ pc # "entry") =>
    /\ pc = "done"
    /\ result \notin {"None", "program"}
    /\ draws = 0

------------------------------------------------------------------------------
\* Properties of the script.

Bins == { [n |-> n, b |-> b] : n \in DOMAIN program_dict,
                               b \in 0..(max_num_size_bins - 1) }

\* C6: in every size bin the stored program strings are pairwise different
\* and there are at most num_programs_per_size_bin of them.
ClaimC6 ==
  spc # "idle" =>
    \A bin \in Bins :
      LET programs == program_dict[bin.n][bin.b].programs
      IN  /\ \A k, l \in 1..Len(programs) :
                programs[k] = programs[l] => k = l
          /\ Len(programs) <= num_programs_per_size_bin

\* A size bin was offered the same program twice and holds it once.
WitnessC6 ==
  /\ spc # "idle"
  /\ \E bin \in Bins :
       LET trees == primitive_trees[bin.n][bin.b]
       IN  /\ Len(trees) = 2
           /\ Str(trees[1]) = Str(trees[2])
           /\ program_dict[bin.n][bin.b].programs = <<Str(trees[1])>>

Min(a, b) == IF a <= b THEN a ELSE b

\* The size range of size bin b of function set n, from the set's own
\* largest arity.
RangeMin(n, b) == b * function_sets[n].bin_size + 1

RangeMax(n, b) ==
  Min((b + 1) * function_sets[n].bin_size,
      get_max_size(max_arity_of(function_sets[n].function_set),
                   function_sets[n].max_depth))

\* C11: every program stored in a size bin has a size within the range of
\* the bin and a depth of at most max_depth.
ClaimC11 ==
  spc # "idle" =>
    \A bin \in Bins :
      LET record == program_dict[bin.n][bin.b]
      IN  \A k \in 1..Len(record.programs) :
            /\ RangeMin(bin.n, bin.b) <= record.sizes[k]
            /\ record.sizes[k] <= RangeMax(bin.n, bin.b)
            /\ record.depths[k] <= function_sets[bin.n].max_depth

------------------------------------------------------------------------------
\* Properties of one attempt.

\* Size bin b of the scenario holds one program, of a size within the range
\* of the bin and of a depth of at most max_depth.
HoldsOne(b) ==
  LET record == program_dict[1][b]
  IN  /\ Len(record.programs) = 1
      /\ RangeMin(1, b) <= record.sizes[1]
      /\ record.sizes[1] <= RangeMax(1, b)
      /\ record.depths[1] <= Scenario.max_depth

\* C12: in the scenario (functions add, sub, mul, aq of arity 2 and sin, tanh
\* of arity 1, a terminal, max_depth 3, bin_size 4, one program per size bin)
\* there are the 4 size bins [1,4], [5,8], [9,12], [13,15]; the builder
\* returns a program for each of them, and after the attempt the size bin
\* holds exactly one program, of a size within its range and of depth <= 3;
\* at the end every size bin does and the function set is reported filled.
ClaimC12 ==
  function_sets = <<Scenario>> =>
    /\ num_size_bins = 4
    /\ <<RangeMin(1, 0), RangeMax(1, 0)>> = <<1, 4>>
    /\ <<RangeMin(1, 3), RangeMax(1, 3)>> = <<13, 15>>
    /\ pc = "done" => result = "program"
    /\ pc = "idle" =>
         \A b \in 0..3 : (b < i \/ spc # "attempt") => HoldsOne(b)
    /\ spc = "finished" => files = {1}

\* The scenario has ended with a program of 13 nodes in the last size bin.
WitnessC12 ==
  /\ function_sets = <<Scenario>> /\ spc = "finished"
  /\ \A b \in 0..3 : HoldsOne(b)
  /\ program_dict[1][3].sizes = <<13>>

------------------------------------------------------------------------------
\* Properties of the sizes of the size bins.

\* C13: the sizes of size bin i are i*bin_size+1 and the smaller of
\* (i+1)*bin_size and max_possible_size; the range is not empty, the ranges
\* of the size bins follow one another from 1 to max_possible_size, and
\* every size from 1 to max_possible_size is in exactly one of them.
ClaimC13 ==
  spc = "bounds" =>
    LET bin_size == function_sets[name].bin_size
        In(x, b) == bin_min_size(b) <= x /\ x <= bin_max_size(b)
    IN  /\ max_possible_size =
             get_max_size(max_arity_of(function_set),
                          function_sets[name].max_depth)
        /\ num_size_bins = Ceil(max_possible_size, bin_size)
        /\ min_size = i * bin_size + 1
        /\ max_size = Min((i + 1) * bin_size, max_possible_size)
        /\ min_size <= max_size
        /\ i = 0 => min_size = 1
        /\ i > 0 => min_size = bin_max_size(i - 1) + 1
        /\ i = num_size_bins - 1 => max_size = max_possible_size
        /\ \A x \in 1..max_possible_size :
             Cardinality({ b \in 0..(num_size_bins - 1) : In(x, b) }) = 1
        /\ \A b \in 0..(num_size_bins - 1) :
             \A x \in bin_min_size(b)..bin_max_size(b) :
               1 <= x /\ x <= max_possible_size

\* The last of several size bins is cut short at max_possible_size.
WitnessC13 ==
  /\ spc = "bounds" /\ i > 0 /\ i = num_size_bins - 1
  /\ max_size < (i + 1) * function_sets[name].bin_size

------------------------------------------------------------------------------
\* Properties of the update of a size bin.

\* The program the builder has returned is about to be offered to size bin
\* b of function set n.
Offered(n, b) ==
  /\ spc = "call" /\ pc = "done" /\ result = "program"
  /\ n = name /\ b = i

\* C14: a step leaves the record of a size bin as it is when the bin holds
\* num_programs_per_size_bin programs, and when the program offered to the
\* bin is already stored in it.
ClaimC14 ==
  [][\A bin \in Bins :
       LET record == program_dict[bin.n][bin.b]
       IN  (\/ Len(record.programs) >= num_programs_per_size_bin
            \/ /\ Offered(bin.n, bin.b)
               /\ Contains(record.programs, Str(program)))
             => program_dict'[bin.n][bin.b] = record]_vars

\* A size bin was offered the program it holds a second time, and its
\* record is the record of one program.
WitnessC14 ==
  /\ spc \in {"attempt", "report"}
  /\ \E bin \in Bins :
       LET trees == primitive_trees[bin.n][bin.b]
           record == program_dict[bin.n][bin.b]
       IN  /\ Len(trees) = 2 /\ trees[1] = trees[2]
           /\ record.sizes = <<Size(trees[1])>>
           /\ record.depths = <<Height(trees[1])>>
           /\ record.function_counts = function_count(trees[1])

------------------------------------------------------------------------------
\* Termination of the builder.

------------------------------------------------------------------------------
\* The shape of the list of nodes.

\* The obligations that a list of nodes leaves open: one for the root, and
\* for every node its arguments in place of the obligation it resolves.
Outstanding(prog) ==
  1 + SumSeq([k \in 1..Len(prog) |-> prog[k].arity - 1])

\* The list is one tree in preorder: it leaves no obligation open, and every
\* shorter beginning of it leaves one open.
WellFormed(prog) ==
  /\ prog # <<>>
  /\ Outstanding(prog) = 0
  /\ \A k \in 0..(Len(prog) - 1) : Outstanding(SubSeq(prog, 1, k)) > 0

\* C16: at every iteration of the loop the stack holds as many obligations
\* as the appended nodes leave open; it is empty exactly when the nodes are
\* one complete tree, and every returned list is such a tree.
ClaimC16 ==
  /\ pc = "loop" =>
       /\ Len(stack) = Outstanding(program)
       /\ stack = <<>> <=> WellFormed(program)
  /\ Returned => (stack = <<>> /\ WellFormed(program))

\* A returned tree with a function of three arguments below its root.
WitnessC16 ==
  /\ Returned
  /\ \E k \in 2..Len(program) : program[k].arity = 3

------------------------------------------------------------------------------
\* Errors of the builder.

\* C17: with min_size <= max_size and min_depth <= max_depth the builder
\* raises no error (no choice from an empty list of terminals or of
\* functions, no maximum of an empty list of arities): it ends with a list
\* of nodes or with None.
ClaimC17 ==
  ValidBounds =>
    /\ result \in {"pending", "program", "None"}
    /\ pc = "done" => result \in {"program", "None"}

\* With neither terminals nor functions the builder has returned None.
WitnessC17 ==
  /\ ValidBounds
  /\ primitive_set.terminals = <<>> /\ primitive_set.primitives = <<>>
  /\ pc = "done" /\ result = "None"

------------------------------------------------------------------------------
\* The desired size.

\* C18: with the trait "size" and a terminal in the primitive set, an
\* obligation popped with a size >= desired_value is resolved as a terminal,
\* and every later obligation is popped with such a size: no function is
\* appended once the size has reached desired_value.
ClaimC18 ==
  [][(desired_trait = "size" /\ HasTerminal /\ pc = "loop") =>
       /\ (popped'.size >= desired_value /\ program' # program)
            => Last(program').kind # "function"
       /\ popped.size >= desired_value => popped'.size >= desired_value]_vars

\* A returned tree of the desired size, at least 3, whose last obligations
\* were popped with the desired size and resolved as terminals.
WitnessC18 ==
  /\ desired_trait = "size" /\ HasTerminal /\ Returned
  /\ Size(program) = desired_value /\ desired_value >= 3
  /\ popped.size = desired_value
  /\ program[Len(program)].arity = 0
  /\ program[Len(program) - 1].arity = 0

------------------------------------------------------------------------------
\* The carry-forward.

\* C19: when a terminal is resolved and obligations remain, the size of the
\* next obligation is at most the size of the resolved one; the
\* carry-forward gives it that size, and so does not decrease it.
ClaimC19 ==
  [][(/\ pc = "loop" /\ Len(stack) >= 2
      /\ program' # program /\ Last(program').kind # "function") =>
       LET resolved == Last(stack)
           upcoming == stack[Len(stack) - 1]
       IN  /\ upcoming.size <= resolved.size
           /\ Len(stack') = Len(stack) - 1
           /\ Last(stack') = [depth |-> upcoming.depth,
                              size |-> resolved.size]
           /\ Last(stack').size >= upcoming.size]_vars

\* The carry-forward has raised a size: the next obligation is an argument
\* of a node above the terminal just resolved, and has the terminal's size.
WitnessC19 ==
  /\ pc = "loop" /\ stack # <<>> /\ program # <<>>
  /\ Last(program).kind # "function"
  /\ Last(stack).depth < popped.depth
  /\ Last(stack).size = popped.size

------------------------------------------------------------------------------
\* The report.

\* Every size bin of function set n holds num_programs_per_size_bin
\* programs.
AllFilled(n) ==
  LET bins == Ceil(get_max_size(max_arity_of(function_sets[n].function_set),
                                function_sets[n].max_depth),
                   function_sets[n].bin_size)
  IN  \A b \in 0..(bins - 1) :
        Len(program_dict[n][b].programs) = num_programs_per_size_bin

\* C20: at the end of the report the file of a function set is written if
\* and only if every size bin of the set holds num_programs_per_size_bin
\* programs.
ClaimC20 ==
  spc = "finished" =>
    \A n \in 1..Len(function_sets) : n \in files <=> AllFilled(n)

------------------------------------------------------------------------------
\* Late failures.

\* The trait is "size", there is a terminal, and every function has one or
\* two arguments.
UnaryBinary ==
  /\ desired_trait = "size" /\ HasTerminal
  /\ \A k \in 1..Len(primitive_set.primitives) :
       primitive_set.primitives[k].arity \in {1, 2}

\* C21: with the trait "size", a terminal and functions of arity 1 or 2
\* only, the builder returns None only for the root, with no node appended.
ClaimC21 ==
  (UnaryBinary /\ pc = "done" /\ result = "None") => program = <<>>

\* The builder has returned None for the root although there are functions.
WitnessC21 ==
  /\ UnaryBinary /\ ValidBounds /\ HasFunction
  /\ pc = "done" /\ result = "None" /\ program = <<>>

------------------------------------------------------------------------------
\* The desired size is reached.

\* There is a function of one argument, and max_size is at most the size of
\* the largest tree of depth max_depth.
Reachable ==
  /\ \E k \in 1..Len(primitive_set.primitives) :
       primitive_set.primitives[k].arity = 1
  /\ max_size <= get_max_size(max_arity_of(primitive_set.primitives),
                              max_depth)

\* C22: with the trait "size", a terminal, functions of arity 1 or 2 of
\* which one has arity 1, and max_size <= get_max_size(max_arity, max_depth),
\* every returned tree has at least desired_value and at most max_size nodes.
ClaimC22 ==
  (UnaryBinary /\ Reachable /\ Returned) =>
    /\ desired_value <= Size(program)
    /\ Size(program) <= max_size

\* A returned tree larger than the desired size, which is at least 3.
WitnessC22 ==
  /\ UnaryBinary /\ Reachable /\ Returned
  /\ desired_value >= 3 /\ Size(program) > desired_value

------------------------------------------------------------------------------
\* The trees kept for the evaluation.

\* C23: for every size bin the trees kept in primitive_trees are, one by
\* one, the programs stored in program_dict.
ClaimC23 ==
  spc # "idle" =>
    \A bin \in Bins :
      LET trees == primitive_trees[bin.n][bin.b]
          programs == program_dict[bin.n][bin.b].programs
      IN  /\ Len(trees) = Len(programs)
          /\ \A k \in 1..Len(trees) : Str(trees[k]) = programs[k]

------------------------------------------------------------------------------
\* The numbers of instances.

\* C24: for every size bin the numbers of instances of the functions, the
\* variables and the constants add up to the sum of the sizes of the
\* programs stored in the bin.
ClaimC24 ==
  spc # "idle" =>
    \A bin \in Bins :
      LET record == program_dict[bin.n][bin.b]
      IN  SumSeq(record.function_counts) + SumSeq(record.variable_counts)
            + SumSeq(record.constant_counts)
          = SumSeq(record.sizes)

\* A size bin holds two programs of different sizes, whose functions and
\* terminals are counted in the running sums.
WitnessC24 ==
  /\ spc # "idle"
  /\ \E bin \in Bins :
       LET record == program_dict[bin.n][bin.b]
       IN  /\ Len(record.programs) = 2
           /\ record.sizes[1] # record.sizes[2]
           /\ SumSeq(record.function_counts) >= 1
           /\ SumSeq(record.variable_counts) + SumSeq(record.constant_counts)
                >= 2

====
